---- MODULE Spec2Model ----
(***************************************************************************)
(* Model of the Hacker News comment aggregator (src/src/lib.rs): the       *)
(* recursive, concurrent fetch of a story and its comment tree.            *)
(*                                                                         *)
(* Option<T> is modelled as a sequence of length 0 (None) or 1 (Some(v)).  *)
(* A string is modelled as a sequence of characters: the digits 0..9, and  *)
(* 10 for a character that is not a digit.                                 *)
(* Every invocation of an async fn is a task, named by its path: the       *)
(* sequence of child positions that leads to it from the root invocation   *)
(* fetch_story_with_comments (path << >>).                                  *)
(***************************************************************************)
EXTENDS Naturals, Sequences, FiniteSets, Bags, TLC

VARIABLES
    db,        \* the upstream dataset (items and the upstream's answer per id)
    storyId,   \* parameter story_id: &str
    maxDepth,  \* parameter max_depth: Option<u32>
    limit,     \* parameter limit: Option<usize>
    tasks,     \* the invocations of the current call, by path
    issued,    \* bag of the keys a GET was sent for during the current call
    result,    \* Option of the value fetch_story_with_comments returned
    call,      \* number of calls started so far
    prev,      \* Option of the value the previous call returned
    before,    \* Option of the depth and the GETs of the previous call
    response   \* Option of the HTTP response main has sent

vars == <<db, storyId, maxDepth, limit, tasks, issued, result, call, prev,
          before, response>>

(***************************************************************************)
(* Bounds of the model.                                                    *)
(***************************************************************************)
MaxDepthParam == 2   \* depth is None or Some(0..MaxDepthParam)
MaxLimit == 2        \* limit is None or Some(0..MaxLimit)
MaxAbnormal == 1     \* at most this many items are text-less or fail to fetch
NumCalls == 2        \* calls made one after the other on the same dataset

(***************************************************************************)
(* Option values.                                                          *)
(***************************************************************************)
None == << >>
Some(v) == <<v>>
IsSome(o) == o # << >>
UnwrapOr(o, dflt) == IF o = << >> THEN dflt ELSE o[1]

(***************************************************************************)
(* The upstream dataset.                                                   *)
(***************************************************************************)
Ids == 1..7
Stories == {1, 7}

NoItem == [id |-> 0, type |-> "", by |-> None, time |-> None,
           text |-> None, kids |-> None]

\* The kids lists of the datasets: trees of comments below story 1; story 7
\* has no kids field at all.
Shapes ==
    { [i \in Ids |-> CASE i = 1 -> Some(<<3, 2, 4>>)
                       [] i = 3 -> Some(<<6, 5>>)
                       [] i = 2 -> Some(<<>>)
                       [] OTHER -> None],
      [i \in Ids |-> CASE i = 1 -> Some(<<5, 2>>)
                       [] i = 2 -> Some(<<4, 3>>)
                       [] i = 3 -> Some(<<6>>)
                       [] OTHER -> None],
      [i \in Ids |-> CASE i = 1 -> Some(<<2>>)
                       [] i = 2 -> Some(<<3>>)
                       [] i = 3 -> Some(<<5, 4>>)
                       [] i = 4 -> Some(<<6>>)
                       [] OTHER -> None] }

\* Kids lists that are no trees: an item that lists itself, two items that
\* list each other, and a comment that lists its story.
CyclicShapes ==
    { [i \in Ids |-> CASE i = 1 -> Some(<<2>>)
                       [] i = 2 -> Some(<<2>>)
                       [] OTHER -> None],
      [i \in Ids |-> CASE i = 1 -> Some(<<2>>)
                       [] i = 2 -> Some(<<3>>)
                       [] i = 3 -> Some(<<2>>)
                       [] OTHER -> None],
      [i \in Ids |-> CASE i = 1 -> Some(<<3, 2>>)
                       [] i = 2 -> Some(<<1>>)
                       [] OTHER -> None] }

\* What the upstream does with a request for an item.
Answers == {"item", "http500", "neterr", "null"}

MkItem(i, kids, textless) ==
    [id |-> i, type |-> IF i \in Stories THEN "story" ELSE "comment",
     by |-> Some(i), time |-> Some(i),
     text |-> IF textless THEN None ELSE Some(i),
     kids |-> kids]

Datasets ==
    { [items |-> [i \in Ids |-> MkItem(i, s[i], a[i] = "textless")],
       answer |-> [i \in Ids |-> IF a[i] \in Answers THEN a[i] ELSE "item"]] :
      s \in Shapes,
      a \in { f \in [Ids -> Answers \cup {"textless"}] :
                Cardinality({i \in Ids : f[i] # "item"}) <= MaxAbnormal } }

CyclicDatasets ==
    { [items |-> [i \in Ids |-> MkItem(i, s[i], a[i] = "textless")],
       answer |-> [i \in Ids |-> IF a[i] \in Answers THEN a[i] ELSE "item"]] :
      s \in CyclicShapes,
      a \in { f \in [Ids -> Answers \cup {"textless"}] :
                /\ \A i \in Ids : f[i] # "item" => i \in 1..3
                /\ Cardinality({i \in Ids : f[i] # "item"}) <= MaxAbnormal } }

(***************************************************************************)
(* Strings of digits.                                                      *)
(***************************************************************************)
RECURSIVE U32ToString(_)
U32ToString(n) == IF n < 10 THEN <<n>> ELSE U32ToString(n \div 10) \o <<n % 10>>

\* The item the upstream stores under a key, if any: keys are compared as
\* strings, so only the canonical decimal form of an id names its item.
ItemAt(key) == { i \in Ids : U32ToString(i) = key }

\* The upstream's response to GET item/<key>.json: whether a response arrived
\* at all, its status code, and what its body parses to.
Response(d, key) ==
    IF ItemAt(key) = {}
    THEN [arrived |-> TRUE, status |-> 200, body |-> "null", item |-> NoItem]
    ELSE LET i == CHOOSE j \in ItemAt(key) : TRUE
         IN CASE d.answer[i] = "item" ->
                   [arrived |-> TRUE, status |-> 200, body |-> "item",
                    item |-> d.items[i]]
              [] d.answer[i] = "http500" ->
                   [arrived |-> TRUE, status |-> 500, body |-> "other",
                    item |-> NoItem]
              [] d.answer[i] = "neterr" ->
                   [arrived |-> FALSE, status |-> 0, body |-> "other",
                    item |-> NoItem]
              [] OTHER ->
                   [arrived |-> TRUE, status |-> 200, body |-> "null",
                    item |-> NoItem]

(***************************************************************************)
(* Errors and results.                                                     *)
(***************************************************************************)
NoErr == [variant |-> "", msg |-> "", item |-> None, status |-> 0]
NoNode == [id |-> 0, by |-> None, time |-> None, text |-> None,
           replies |-> << >>]

\* Result<HNItem>
ItemOk(item) == [tag |-> "Ok", item |-> item, err |-> NoErr]
ItemErr(e) == [tag |-> "Err", item |-> NoItem, err |-> e]

\* Result<CommentWithReplies>, and the slot of a future join_all still waits for
NodeOk(node) == [tag |-> "Ok", node |-> node, err |-> NoErr]
NodeErr(e) == [tag |-> "Err", node |-> NoNode, err |-> e]
Pending == [tag |-> "Pending", node |-> NoNode, err |-> NoErr]

\* Result<StoryWithComments>
StoryOk(story, comments) ==
    [tag |-> "Ok", story |-> story, comments |-> comments, err |-> NoErr]
StoryErr(e) ==
    [tag |-> "Err", story |-> NoItem, comments |-> << >>, err |-> e]

(***************************************************************************)
(* fetch_hn_item                                                           *)
(***************************************************************************)
\* A fetch that does not look at the status code.
StatusOkUnchecked(status) == TRUE

\* (200..=299).contains(&status)
StatusOk(status) == 200 <= status /\ status <= 299

FetchHnItem(d, key) ==
    LET resp == Response(d, key)
    IN IF ~resp.arrived
       THEN ItemErr([variant |-> "JsError", msg |-> "", item |-> None,
                     status |-> 0])
       ELSE IF ~StatusOk(resp.status)
       THEN ItemErr([variant |-> "RustError", msg |-> "Failed to fetch item",
                     item |-> Some(key), status |-> resp.status])
       ELSE IF resp.body # "item"
       THEN ItemErr([variant |-> "SerdeJsonError", msg |-> "", item |-> None,
                     status |-> 0])
       ELSE ItemOk(resp.item)

(***************************************************************************)
(* Tasks.                                                                  *)
(***************************************************************************)
Root == << >>
Parent(p) == SubSeq(p, 1, Len(p) - 1)
Last(p) == p[Len(p)]

NoTasks == [p \in {} |-> 0]

NewTask(key, id, depth) ==
    [key |-> key, id |-> id, depth |-> depth, pc |-> "fetch",
     item |-> NoItem, kids |-> << >>, slots |-> << >>]

\* A fetch that sends its GET again when the first one fails.
SendsWithRetry(key) ==
    IF FetchHnItem(db, key).tag = "Err"
    THEN SetToBag({key}) (+) SetToBag({key})
    ELSE SetToBag({key})

\* The GETs one call of fetch_hn_item sends: Fetch::Request(req).send(), once.
Sends(key) == SetToBag({key})

RECURSIVE SendsAll(_)
SendsAll(keys) ==
    IF keys = << >> THEN EmptyBag
    ELSE Sends(Head(keys)) (+) SendsAll(Tail(keys))

\* join_all over the futures of kid_ids, created by task p: every future is
\* polled once, which sends its GET.
Spawn(t, p, kid_ids, depth) ==
    [q \in {Append(p, i) : i \in DOMAIN kid_ids} |->
        NewTask(U32ToString(kid_ids[Last(q)]), kid_ids[Last(q)], depth)]
    @@ [t EXCEPT ![p].pc = "join", ![p].kids = kid_ids,
                 ![p].slots = [i \in DOMAIN kid_ids |-> Pending]]

SpawnKeys(kid_ids) == SendsAll([i \in DOMAIN kid_ids |-> U32ToString(kid_ids[i])])

\* A join that appends each output as it completes.
JoinAllStoreAsCompleted(slots, i, r) ==
    LET j == CHOOSE k \in DOMAIN slots :
                /\ slots[k].tag = "Pending"
                /\ \A m \in 1..(k - 1) : slots[m].tag # "Pending"
    IN [slots EXCEPT ![j] = r]

\* join_all keeps the output of its i-th future at position i.
JoinAllStore(slots, i, r) == [slots EXCEPT ![i] = r]

\* A join that resumes as soon as one of its futures has completed.
AllDoneAny(slots) == \E i \in DOMAIN slots : slots[i].tag # "Pending"

\* join_all(fetches).await resumes when every future has completed.
AllDone(slots) == \A i \in DOMAIN slots : slots[i].tag # "Pending"

\* A filter that forgets the text check.
KeepsEveryOk(r) == r.tag = "Ok"

\* for result in results { if let Ok(c) = result { if c.text.is_some() { push } } }
Keeps(r) == r.tag = "Ok" /\ IsSome(r.node.text)

Collect(slots) ==
    LET kept == SelectSeq(slots, Keeps)
    IN [i \in DOMAIN kept |-> kept[i].node]

MkNode(task, replies) ==
    [id |-> task.id, by |-> task.item.by, time |-> task.item.time,
     text |-> task.item.text, replies |-> replies]

\* A fail-fast join: the first error among the branches becomes the error of
\* the node itself.
OutcomeFailFast(task, slots) ==
    IF \E i \in DOMAIN slots : slots[i].tag = "Err"
    THEN NodeErr(slots[CHOOSE i \in DOMAIN slots :
                         /\ slots[i].tag = "Err"
                         /\ \A m \in 1..(i - 1) : slots[m].tag # "Err"].err)
    ELSE NodeOk(MkNode(task, Collect(slots)))

\* Ok(CommentWithReplies { id: comment_id, by, time, text, replies })
Outcome(task, slots) == NodeOk(MkNode(task, Collect(slots)))

\* The output r of the future at position i of task p's join_all arrives; when
\* it is the last one, p resumes, builds its own value and hands it to the
\* join_all of its parent, up to the root. (t and slots are bound as values,
\* so that each level of the recursion computes them once.)
RECURSIVE Deliver(_, _, _, _)
Deliver(t0, p, i, r) ==
    CHOOSE out \in
        { IF ~AllDone(slots) THEN [t EXCEPT ![p].slots = slots]
          ELSE LET t3 == [t EXCEPT ![p].slots = slots, ![p].pc = "done"]
               IN IF p = Root THEN t3
                  ELSE Deliver(t3, Parent(p), Last(p), Outcome(t3[p], slots)) :
          t \in {t0}, slots \in {JoinAllStore(t0[p].slots, i, r)} } : TRUE

(***************************************************************************)
(* fetch_comment_with_replies                                              *)
(***************************************************************************)
DefaultDepth == 10

\* A default of unwrap_or_default().
CurrentDepthZero(max_depth) == UnwrapOr(max_depth, 0)

\* let current_depth = max_depth.unwrap_or(10)
CurrentDepth(max_depth) == UnwrapOr(max_depth, DefaultDepth)

\* if current_depth > 0 { if let Some(kids) = &comment.kids { ... } }
Descends(current_depth, item) == current_depth > 0 /\ IsSome(item.kids)

\* A recursion that hands its own depth on.
NextDepthSame(current_depth) == Some(current_depth)

NextDepth(current_depth) == Some(current_depth - 1)

(***************************************************************************)
(* fetch_story_with_comments                                               *)
(***************************************************************************)
\* A call that does not look at the kind of the item.
IsStoryUnchecked(item) == TRUE

\* A recursion that truncates every kids list to the limit of the request.
ReplyIdsLimited(kids) ==
    IF IsSome(limit) /\ limit[1] < Len(kids) THEN SubSeq(kids, 1, limit[1])
    ELSE kids

\* kids.iter().map(|&kid_id| fetch_comment_with_replies(kid_id, next_depth)):
\* a comment resolves every one of its kids.
ReplyIds(kids) == kids

IsStory(item) == item.type = "story"

Take(s, n) == SubSeq(s, 1, IF n < Len(s) THEN n ELSE Len(s))

\* A call that ignores the limit.
KidIdsUnlimited(kids, lim) == kids

\* match limit { Some(lim) => kids.iter().take(lim)..., None => kids.clone() }
KidIds(kids, lim) == IF IsSome(lim) THEN Take(kids, lim[1]) ELSE kids

NotAStory ==
    [variant |-> "RustError", msg |-> "Provided ID is not a story",
     item |-> None, status |-> 0]

\* The value the call returns once the root task is done with its join_all.
Returned(t) ==
    IF t[Root].pc = "done"
    THEN Some(StoryOk(t[Root].item, Collect(t[Root].slots)))
    ELSE None

(***************************************************************************)
(* main                                                                    *)
(***************************************************************************)
\* char::is_numeric, on the characters a url path can hold
IsNumeric(c) == c \in 0..9

\* story_id.chars().all(char::is_numeric)
AllNumeric(story_id) == \A i \in DOMAIN story_id : IsNumeric(story_id[i])

NoBody == [tag |-> "", story |-> NoItem, comments |-> << >>, err |-> NoErr]

\* Response::error("Invalid Story ID", 400)
InvalidStoryId ==
    [status |-> 400, msg |-> "Invalid Story ID", body |-> NoBody]

\* match fetch_story_with_comments(..).await { Ok(s) => json, Err(e) => 500 }
MainResponse(r) ==
    IF r.tag = "Ok"
    THEN [status |-> 200, msg |-> "", body |-> r]
    ELSE [status |-> 500, msg |-> "Error fetching data", body |-> r]

\* What main has answered once the call has returned r.
Responds(r) == IF IsSome(r) THEN Some(MainResponse(r[1])) ELSE None

(***************************************************************************)
(* The requests made of the service.                                       *)
(***************************************************************************)
StoryIds == {U32ToString(1), U32ToString(7), U32ToString(2)}

\* The ids after /api/story/ in the request's path: the above, the empty
\* one, one with a leading zero, and two with a character that is no digit.
PathIds == StoryIds \cup {<< >>, <<0, 1>>, <<10>>, <<2, 10>>}
Depths == {None} \cup {Some(n) : n \in 0..MaxDepthParam}
Limits == {None} \cup {Some(n) : n \in 0..MaxLimit}

Init ==
    /\ db \in Datasets
    /\ storyId \in PathIds
    /\ maxDepth \in Depths
    /\ limit \in Limits
    /\ tasks = NoTasks
    /\ issued = EmptyBag
    /\ result = None
    /\ call = 0
    /\ prev = None
    /\ before = None
    /\ response = None

\* What is kept of the call that has just ended.
Before == IF call = 0 THEN None
          ELSE Some([maxDepth |-> maxDepth, issued |-> issued])

\* main answers 400 to an id that is not numeric, without calling anything.
RejectId ==
    /\ call < NumCalls
    /\ call = 0 \/ IsSome(response)
    /\ ~AllNumeric(storyId)
    /\ call' = call + 1
    /\ prev' = result
    /\ before' = Before
    /\ result' = None
    /\ tasks' = NoTasks
    /\ issued' = EmptyBag
    /\ response' = Some(InvalidStoryId)
    /\ UNCHANGED <<db, storyId, maxDepth, limit>>

\* main accepts the id; fetch_story_with_comments is called and sends the GET
\* for the story.
Request ==
    /\ call < NumCalls
    /\ call = 0 \/ IsSome(result)
    /\ AllNumeric(storyId)
    /\ call' = call + 1
    /\ prev' = result
    /\ before' = Before
    /\ result' = None
    /\ response' = None
    /\ tasks' = (Root :> NewTask(storyId, 0, maxDepth))
    /\ issued' = Sends(storyId)
    /\ UNCHANGED <<db, storyId, maxDepth, limit>>

\* The story's fetch ends in an error: let story = fetch_hn_item(story_id).await?
RootFetchFails ==
    /\ Root \in DOMAIN tasks
    /\ tasks[Root].pc = "fetch"
    /\ LET r == FetchHnItem(db, storyId)
       IN /\ r.tag = "Err"
          /\ tasks' = [tasks EXCEPT ![Root].pc = "done"]
          /\ result' = Some(StoryErr(r.err))
    /\ response' = Responds(result')
    /\ UNCHANGED <<db, storyId, maxDepth, limit, issued, call, prev, before>>

\* The story's fetch returns an item: the kind check, the limit, the fan-out.
RootFetchReturns ==
    /\ Root \in DOMAIN tasks
    /\ tasks[Root].pc = "fetch"
    /\ LET r == FetchHnItem(db, storyId)
           t1 == [tasks EXCEPT ![Root].item = r.item]
       IN /\ r.tag = "Ok"
          /\ IF ~IsStory(r.item)
             THEN /\ tasks' = [t1 EXCEPT ![Root].pc = "done"]
                  /\ result' = Some(StoryErr(NotAStory))
                  /\ issued' = issued
             ELSE LET kid_ids == IF IsSome(r.item.kids)
                                 THEN KidIds(r.item.kids[1], limit)
                                 ELSE << >>
                  IN IF kid_ids = << >>
                     THEN /\ tasks' = [t1 EXCEPT ![Root].pc = "done"]
                          /\ result' = Some(StoryOk(r.item, << >>))
                          /\ issued' = issued
                     ELSE /\ tasks' = Spawn(t1, Root, kid_ids, maxDepth)
                          /\ result' = None
                          /\ issued' = issued (+) SpawnKeys(kid_ids)
    /\ response' = Responds(result')
    /\ UNCHANGED <<db, storyId, maxDepth, limit, call, prev, before>>

\* A comment's fetch ends in an error: fetch_hn_item(..).await? returns Err to
\* the join_all of the parent.
CommentFetchFails(p) ==
    /\ p # Root
    /\ tasks[p].pc = "fetch"
    /\ LET r == FetchHnItem(db, tasks[p].key)
           t1 == [tasks EXCEPT ![p].pc = "done"]
           t2 == Deliver(t1, Parent(p), Last(p), NodeErr(r.err))
       IN /\ r.tag = "Err"
          /\ tasks' = t2
          /\ result' = Returned(t2)
    /\ response' = Responds(result')
    /\ UNCHANGED <<db, storyId, maxDepth, limit, issued, call, prev, before>>

\* A comment's fetch returns an item: the depth check and the fan-out, or the
\* node without replies.
CommentFetchReturns(p) ==
    /\ p # Root
    /\ tasks[p].pc = "fetch"
    /\ LET r == FetchHnItem(db, tasks[p].key)
           t1 == [tasks EXCEPT ![p].item = r.item]
           current_depth == CurrentDepth(tasks[p].depth)
           kids == IF Descends(current_depth, r.item)
                   THEN ReplyIds(r.item.kids[1])
                   ELSE << >>
       IN /\ r.tag = "Ok"
          /\ IF kids = << >>
             THEN LET t2 == Deliver([t1 EXCEPT ![p].pc = "done"], Parent(p),
                                    Last(p), Outcome(t1[p], << >>))
                  IN /\ tasks' = t2
                     /\ result' = Returned(t2)
                     /\ issued' = issued
             ELSE /\ tasks' = Spawn(t1, p, kids, NextDepth(current_depth))
                  /\ result' = None
                  /\ issued' = issued (+) SpawnKeys(kids)
    /\ response' = Responds(result')
    /\ UNCHANGED <<db, storyId, maxDepth, limit, call, prev, before>>

Next ==
    \/ RejectId
    \/ Request
    \/ RootFetchFails
    \/ RootFetchReturns
    \/ \E p \in DOMAIN tasks : CommentFetchFails(p)
    \/ \E p \in DOMAIN tasks : CommentFetchReturns(p)

Spec == Init /\ [][Next]_vars

(***************************************************************************)
(* The service on datasets whose kids lists are no trees, with a second    *)
(* request that names the default depth.                                   *)
(***************************************************************************)
InitCyc ==
    /\ db \in CyclicDatasets
    /\ storyId \in {U32ToString(1), <<10>>}
    /\ maxDepth \in Depths
    /\ limit \in Limits
    /\ tasks = NoTasks
    /\ issued = EmptyBag
    /\ result = None
    /\ call = 0
    /\ prev = None
    /\ before = None
    /\ response = None

\* After a request without depth has been answered, the same request is made
\* with depth=10.
RequestDepth10 ==
    /\ call >= 1
    /\ call < NumCalls
    /\ IsSome(result)
    /\ AllNumeric(storyId)
    /\ maxDepth = None
    /\ maxDepth' = Some(10)
    /\ call' = call + 1
    /\ prev' = result
    /\ before' = Before
    /\ result' = None
    /\ response' = None
    /\ tasks' = (Root :> NewTask(storyId, 0, maxDepth'))
    /\ issued' = Sends(storyId)
    /\ UNCHANGED <<db, storyId, limit>>

NextCyc == Next \/ RequestDepth10

SpecCyc == InitCyc /\ [][NextCyc]_vars

\* Every fetch that was sent completes.
FetchCompletes ==
    \/ RootFetchFails
    \/ RootFetchReturns
    \/ \E p \in DOMAIN tasks : CommentFetchFails(p) \/ CommentFetchReturns(p)

\* The same datasets, for requests that name their depth.
InitFair ==
    /\ db \in CyclicDatasets
    /\ storyId \in {U32ToString(1), <<10>>}
    /\ maxDepth \in Depths \ {None}
    /\ limit \in Limits
    /\ tasks = NoTasks
    /\ issued = EmptyBag
    /\ result = None
    /\ call = 0
    /\ prev = None
    /\ before = None
    /\ response = None

SpecCycFair == InitFair /\ [][Next]_vars /\ WF_vars(FetchCompletes)

(***************************************************************************)
(* Vocabulary of the properties.                                           *)
(***************************************************************************)
Returns == IsSome(result)
Res == result[1]
ReturnsOk == Returns /\ Res.tag = "Ok"

\* The id the request names, when the upstream has an item under that key.
RootItems == ItemAt(storyId)
RootAnswer == IF RootItems = {} THEN "null"
              ELSE db.answer[CHOOSE i \in RootItems : TRUE]
RootItem == db.items[CHOOSE i \in RootItems : TRUE]

KidsOf(id) == UnwrapOr(db.items[id].kids, << >>)
Range(s) == {s[i] : i \in DOMAIN s}
NodeIds(nodes) == [i \in DOMAIN nodes |-> nodes[i].id]
Fetches(id) == CopiesIn(U32ToString(id), issued)

\* The items below an item in the upstream's tree.
RECURSIVE Below(_)
Below(id) == UNION {{k} \cup Below(k) : k \in Range(KidsOf(id))}

\* The ids of the nodes of a list of comment trees.
RECURSIVE IdsIn(_)
IdsIn(nodes) ==
    UNION {{nodes[i].id} \cup IdsIn(nodes[i].replies) : i \in DOMAIN nodes}

\* ids lists members of kids, each once, in the order kids lists them.
InKidsOrder(ids, kids) ==
    /\ \A i \in DOMAIN ids : \E k \in DOMAIN kids : kids[k] = ids[i]
    /\ \A i, j \in DOMAIN ids :
          i < j => \E k, m \in DOMAIN kids :
                      k < m /\ kids[k] = ids[i] /\ kids[m] = ids[j]

RECURSIVE RepliesInOrder(_)
RepliesInOrder(node) ==
    /\ InKidsOrder(NodeIds(node.replies), KidsOf(node.id))
    /\ \A i \in DOMAIN node.replies : RepliesInOrder(node.replies[i])

\* C1: the comments of the result and the replies of every node list the
\* surviving children in the order of the upstream kids list, and at every
\* moment the output a join holds at position i is the output of its i-th kid,
\* whichever fetch completed first.
C1_KidsOrder ==
    /\ \A p \in DOMAIN tasks : \A i \in DOMAIN tasks[p].slots :
          tasks[p].slots[i].tag = "Ok" =>
             /\ tasks[p].slots[i].node.id = tasks[p].kids[i]
             /\ RepliesInOrder(tasks[p].slots[i].node)
    /\ ReturnsOk =>
          /\ InKidsOrder(NodeIds(Res.comments), UnwrapOr(Res.story.kids, << >>))
          /\ \A i \in DOMAIN Res.comments : RepliesInOrder(Res.comments[i])

\* A later kid's branch has completed while an earlier kid's fetch is still in
\* flight, at the top level and at a nested level.
LaterKidFirst(p) ==
    \E i, j \in DOMAIN tasks[p].slots :
       /\ i < j
       /\ tasks[p].slots[i].tag = "Pending"
       /\ tasks[p].slots[j].tag = "Ok"
       /\ IsSome(tasks[p].slots[j].node.text)

C1_Witness ==
    /\ Root \in DOMAIN tasks
    /\ LaterKidFirst(Root)
    /\ \E p \in DOMAIN tasks : p # Root /\ LaterKidFirst(p)

\* The result had every fetch of a comment succeeded: the reference the
\* partial-failure property compares with.
RECURSIVE RefNode(_, _)
RefNode(id, depth) ==
    LET item == db.items[id]
        all == IF depth > 0 /\ IsSome(item.kids)
               THEN [k \in DOMAIN item.kids[1] |->
                        RefNode(item.kids[1][k], depth - 1)]
               ELSE << >>
    IN [id |-> id, by |-> item.by, time |-> item.time, text |-> item.text,
        replies |-> SelectSeq(all, LAMBDA n : IsSome(n.text))]

RefComments ==
    LET kids == UnwrapOr(RootItem.kids, << >>)
        first == IF IsSome(limit) /\ limit[1] < Len(kids)
                 THEN SubSeq(kids, 1, limit[1]) ELSE kids
        all == [k \in DOMAIN first |->
                  RefNode(first[k], IF IsSome(maxDepth) THEN maxDepth[1] ELSE 10)]
    IN SelectSeq(all, LAMBDA n : IsSome(n.text))

\* The comment trees without the subtrees rooted at the ids in F.
RECURSIVE Without(_, _)
Without(nodes, F) ==
    LET rest == SelectSeq(nodes, LAMBDA n : n.id \notin F)
    IN [i \in DOMAIN rest |->
          [rest[i] EXCEPT !.replies = Without(rest[i].replies, F)]]

FailedIds == {i \in Ids : db.answer[i] # "item"}

\* C2: when the story itself is fetched and is a story, the call returns Ok
\* whatever comment fetches fail, and its comments are those of the failure-free
\* result with exactly the subtrees rooted at the failed items removed.
C2_FailureIsolated ==
    (Returns /\ RootAnswer = "item" /\ RootItem.type = "story") =>
        /\ Res.tag = "Ok"
        /\ Res.comments = Without(RefComments, FailedIds)

\* A nested fetch failed; its parent and a sibling of it are in the result.
C2_Witness ==
    /\ ReturnsOk
    /\ \E p \in DOMAIN tasks : \E i, j \in DOMAIN tasks[p].slots :
          /\ p # Root
          /\ tasks[p].slots[i].tag = "Err"
          /\ tasks[p].slots[j].tag = "Ok"
          /\ tasks[p].id \in IdsIn(Res.comments)
          /\ tasks[p].kids[j] \in IdsIn(Res.comments)

RECURSIVE AllHaveText(_)
AllHaveText(nodes) ==
    \A i \in DOMAIN nodes :
       IsSome(nodes[i].text) /\ AllHaveText(nodes[i].replies)

\* The comment items the upstream serves without text.
Textless == {i \in Ids : i \notin RootItems /\ db.items[i].text = None}

\* C3: every node of a returned result has text, and neither a text-less
\* comment item nor anything below it in the upstream's tree is in the result.
C3_NoTextlessSubtree ==
    ReturnsOk =>
        /\ AllHaveText(Res.comments)
        /\ \A i \in Textless :
              IdsIn(Res.comments) \cap ({i} \cup Below(i)) = {}

\* A text-less comment was resolved together with a reply that has text, below
\* a comment the result contains.
C3_Witness ==
    /\ ReturnsOk
    /\ \E p \in DOMAIN tasks : \E i \in DOMAIN tasks[p].slots :
          /\ Len(p) >= 2
          /\ tasks[p].id \in Textless
          /\ tasks[p].slots[i].tag = "Ok"
          /\ IsSome(tasks[p].slots[i].node.text)
          /\ tasks[Parent(p)].id \in IdsIn(Res.comments)

\* C4 (as claimed): once a comment item is fetched and has no text, no GET is
\* ever sent for any id of its kids list.
C4_TextlessKidsNeverFetched ==
    \A p \in DOMAIN tasks :
       (p # Root /\ tasks[p].pc # "fetch" /\ tasks[p].item # NoItem
          /\ tasks[p].item.text = None) =>
             \A k \in Range(KidsOf(tasks[p].id)) : Fetches(k) = 0

\* C5: with limit = Some(L) the branch roots are the first min(L, n) kids of
\* the story, and no GET is sent for a later kid or for anything below it.
C5_LimitBoundsFetches ==
    (IsSome(limit) /\ RootAnswer = "item" /\ RootItem.type = "story") =>
        LET kids == KidsOf(RootItem.id)
            n == IF limit[1] < Len(kids) THEN limit[1] ELSE Len(kids)
        IN /\ \A j \in DOMAIN kids :
                 j > n => \A x \in {kids[j]} \cup Below(kids[j]) : Fetches(x) = 0
           /\ \A p \in DOMAIN tasks :
                 Len(p) = 1 => p[1] <= n /\ tasks[p].id = kids[p[1]]
           /\ Returns => \A j \in 1..n : Fetches(kids[j]) = 1

\* The story has more kids than the limit allows, and the call returned after
\* fetching the first of them.
C5_Witness ==
    /\ ReturnsOk
    /\ IsSome(limit)
    /\ limit[1] >= 1
    /\ Len(UnwrapOr(Res.story.kids, << >>)) > limit[1]
    /\ Fetches(Res.story.kids[1][1]) = 1
    /\ Below(Res.story.kids[1][limit[1] + 1]) # {}

RECURSIVE Height(_)
Height(node) ==
    IF node.replies = << >> THEN 0
    ELSE LET hs == {Height(node.replies[i]) : i \in DOMAIN node.replies}
         IN 1 + CHOOSE h \in hs : \A g \in hs : g <= h

\* C6: a comment resolved with remaining depth 0 has no replies and none of
\* its kids is fetched, and no returned comment has replies nested deeper than
\* the requested depth (the default when no depth is given).
C6_DepthBounds ==
    /\ \A p \in DOMAIN tasks :
          (p # Root /\ tasks[p].depth = Some(0) /\ tasks[p].pc # "fetch") =>
             /\ tasks[p].kids = << >>
             /\ \A k \in Range(KidsOf(tasks[p].id)) : Fetches(k) = 0
             /\ LET r == tasks[Parent(p)].slots[Last(p)]
                IN r.tag = "Ok" => r.node.replies = << >>
    /\ ReturnsOk =>
          \A i \in DOMAIN Res.comments :
             Height(Res.comments[i]) <= UnwrapOr(maxDepth, DefaultDepth)

\* With depth 0 a top-level comment whose item has kids is returned; with
\* depth 1 a returned reply's item has kids.
C6_Witness ==
    /\ ReturnsOk
    /\ IsSome(maxDepth)
    /\ \E i \in DOMAIN Res.comments :
          \/ /\ maxDepth = Some(0)
             /\ KidsOf(Res.comments[i].id) # << >>
          \/ /\ maxDepth = Some(1)
             /\ \E j \in DOMAIN Res.comments[i].replies :
                   KidsOf(Res.comments[i].replies[j].id) # << >>

\* C7: when the item fetched for the story is not a story, the call fails with
\* the "not a story" error and the one GET of the call is the story's.
C7_WrongKind ==
    (RootAnswer = "item" /\ RootItem.type # "story") =>
        /\ BagCardinality(issued) <= 1
        /\ DOMAIN tasks \subseteq {Root}
        /\ Returns => /\ Res = StoryErr(NotAStory)
                      /\ BagCardinality(issued) = 1
                      /\ \A k \in Range(KidsOf(RootItem.id)) : Fetches(k) = 0

\* The id of a comment with kids was requested and the call has returned.
C7_Witness ==
    /\ Returns
    /\ Res.err = NotAStory
    /\ tasks[Root].item.type = "comment"
    /\ UnwrapOr(tasks[Root].item.kids, << >>) # << >>

\* C8: when the story's fetch fails, the call returns the error of that fetch
\* (the status error with the key and the code, the transport error or the
\* decode error), no result and no comments, and sends no GET for a comment.
C8_RootFailure ==
    (RootAnswer # "item") =>
        /\ BagCardinality(issued) <= 1
        /\ DOMAIN tasks \subseteq {Root}
        /\ Returns =>
              /\ Res.tag = "Err"
              /\ Res.story = NoItem
              /\ Res.comments = << >>
              /\ RootAnswer = "http500" =>
                    Res.err = [variant |-> "RustError",
                               msg |-> "Failed to fetch item",
                               item |-> Some(storyId), status |-> 500]
              /\ RootAnswer = "neterr" => Res.err.variant = "JsError"
              /\ RootAnswer = "null" => Res.err.variant = "SerdeJsonError"

\* The upstream answered the story's GET with status 500 and the call returned.
C8_Witness ==
    /\ Returns
    /\ RootAnswer = "http500"
    /\ Res.tag = "Err"
    /\ KidsOf(CHOOSE i \in RootItems : TRUE) # << >>

\* C9: the story of a successful result has the requested id and the kind
\* "story".
C9_StoryIdentity ==
    ReturnsOk =>
        /\ U32ToString(Res.story.id) = storyId
        /\ Res.story.type = "story"

\* A call for a story returned Ok with comments.
C9_Witness ==
    /\ ReturnsOk
    /\ Res.story.id = 1
    /\ Res.comments # << >>

\* C10: a call returns what the previous call with the same parameters on the
\* same dataset returned.
C10_Idempotent ==
    (call >= 2 /\ Returns) => result = prev

\* The second call returned a result with several comments, one with several
\* replies.
C10_Witness ==
    /\ call = 2
    /\ ReturnsOk
    /\ Len(Res.comments) >= 2
    /\ \E i \in DOMAIN Res.comments : Len(Res.comments[i].replies) >= 2

(***************************************************************************)
(* The request surface.                                                    *)
(***************************************************************************)
\* An id that is not a non-empty string of decimal digits.
Malformed(id) == id = << >> \/ \E i \in DOMAIN id : id[i] \notin 0..9

\* C11 (as claimed): a request whose id is malformed, the empty id included,
\* is answered with the invalid-id error and no GET is ever sent for it.
C11_MalformedIdRejected ==
    Malformed(storyId) =>
        /\ issued = EmptyBag
        /\ tasks = NoTasks
        /\ call >= 1 => response = Some(InvalidStoryId)

\* Why a request fails at the root, if it does.
Cause ==
    CASE Malformed(storyId) -> "malformed"
      [] RootAnswer # "item" -> "upstream"
      [] RootItem.type # "story" -> "wrongkind"
      [] OTHER -> "none"

\* The status and category main answers with for each root-level cause.
Category(r) == <<r.status, r.msg>>

CategoriesOf(cause) ==
    CASE cause = "malformed" -> {Category(InvalidStoryId)}
      [] cause = "wrongkind" -> {Category(MainResponse(StoryErr(NotAStory)))}
      [] cause = "upstream" ->
           {Category(MainResponse(StoryErr(
               FetchHnItem([db EXCEPT !.answer[1] = a], U32ToString(1)).err))) :
            a \in Answers \ {"item"}}
      [] OTHER -> {}

\* C12 (as claimed): a request that fails at the root is answered with an
\* error whose status and category no other root-level cause is answered
\* with, and a request that does not fail at the root is answered with 200
\* whatever comment fetches fail. (Stated for the non-empty ids; the empty id
\* is the case of C11.)
C12_DistinctErrors ==
    (IsSome(response) /\ storyId # << >>) =>
        /\ Cause # "none" =>
              /\ response[1].status >= 400
              /\ \A c \in {"malformed", "wrongkind", "upstream"} \ {Cause} :
                    Category(response[1]) \notin CategoriesOf(c)
        /\ Cause = "none" => response[1].status = 200

RECURSIVE WidthAtMost(_, _)
WidthAtMost(nodes, n) ==
    /\ Len(nodes) <= n
    /\ \A i \in DOMAIN nodes : WidthAtMost(nodes[i].replies, n)

\* C13 (as claimed): with limit = L every level of the result, the comments
\* and the replies of every comment, has at most L entries.
C13_LimitPerLevel ==
    (ReturnsOk /\ IsSome(limit)) => WidthAtMost(Res.comments, limit[1])

RECURSIVE WiderThan(_, _)
WiderThan(nodes, n) ==
    \E i \in DOMAIN nodes :
       Len(nodes[i].replies) > n \/ WiderThan(nodes[i].replies, n)

C16_FanOutFanIn ==
    /\ \A p \in DOMAIN tasks : \A i \in DOMAIN tasks[p].kids :
          /\ Append(p, i) \in DOMAIN tasks
          /\ CopiesIn(tasks[Append(p, i)].key, issued) >= 1
          /\ tasks[p].slots[i].tag # "Pending" <=>
                tasks[Append(p, i)].pc = "done"
          /\ tasks[p].pc = "done" => tasks[Append(p, i)].pc = "done"
    /\ Returns => \A p \in DOMAIN tasks : tasks[p].pc = "done"

\* The call returned a result in which a comment with several kids joined a
\* branch that failed and a branch that succeeded.
C16_Witness ==
    /\ ReturnsOk
    /\ \E p \in DOMAIN tasks : \E i, j \in DOMAIN tasks[p].slots :
          /\ p # Root
          /\ tasks[p].slots[i].tag = "Err"
          /\ tasks[p].slots[j].tag = "Ok"
          /\ tasks[p].id \in IdsIn(Res.comments)

\* C17: within one call on a tree-shaped dataset a GET is sent at most once
\* for each id, whether its fetch fails or succeeds.
C17_FetchedOnce ==
    \A k \in BagToSet(issued) : CopiesIn(k, issued) = 1

\* The call returned after a comment's fetch failed and the fetches of other
\* comments succeeded.
C17_Witness ==
    /\ Returns
    /\ BagCardinality(issued) >= 4
    /\ \E p \in DOMAIN tasks : \E i \in DOMAIN tasks[p].slots :
          tasks[p].slots[i].tag = "Err"

\* The error kind fetch_hn_item reports for each answer of the upstream.
KindOf(a) ==
    FetchHnItem([db EXCEPT !.answer[1] = a], U32ToString(1)).err.variant

\* C18 (as claimed): the status failure, the transport failure and the decode
\* failure are reported as three different kinds of error, and every error a
\* fetch reported carries the id of the item that was being fetched.
C18_ErrorsCarryId ==
    /\ \A a, b \in Answers \ {"item"} : a # b => KindOf(a) # KindOf(b)
    /\ \A p \in DOMAIN tasks : \A i \in DOMAIN tasks[p].slots :
          tasks[p].slots[i].tag = "Err" =>
             tasks[p].slots[i].err.item = Some(tasks[Append(p, i)].key)
    /\ (Returns /\ RootItems # {} /\ Res.tag = "Err" /\ Res.err # NotAStory) =>
          Res.err.item = Some(storyId)

\* C14: a call without depth and the call with depth = 10 on the same dataset,
\* id and limit send the same GETs and return the same value.
C14_DefaultDepthIsTen ==
    (call >= 2 /\ Returns /\ maxDepth = Some(10) /\ IsSome(before)
       /\ before[1].maxDepth = None) =>
          /\ result = prev
          /\ issued = before[1].issued

\* Both calls have returned on a dataset whose item 2 lists itself: eleven
\* GETs were sent for it.
C14_Witness ==
    /\ call = 2
    /\ ReturnsOk
    /\ maxDepth = Some(10)
    /\ IsSome(before)
    /\ before[1].maxDepth = None
    /\ CopiesIn(U32ToString(2), issued) = 11
    /\ Res.comments # << >>

\* The remaining depth of a nested resolution is the requested depth less its
\* nesting, so nothing is resolved more than depth + 1 levels below the story.
DepthDecreases ==
    \A p \in DOMAIN tasks :
       p # Root =>
          /\ Len(p) <= UnwrapOr(maxDepth, 10) + 1
          /\ UnwrapOr(tasks[p].depth, 10) + Len(p) = UnwrapOr(maxDepth, 10) + 1

Running == Root \in DOMAIN tasks /\ ~Returns

\* C19: on every dataset, cyclic ones included, the remaining depth decreases
\* by one per level of nesting, and a call whose fetches all complete returns.
C19_Terminates == [](DepthDecreases) /\ (Running ~> Returns)

\* A call with depth 2 has returned on a dataset with a cycle: resolutions
\* were nested three levels deep and an id was fetched more than once.
C19_Witness ==
    /\ Returns
    /\ maxDepth = Some(2)
    /\ \E p \in DOMAIN tasks : Len(p) = 3
    /\ \E k \in BagToSet(issued) : CopiesIn(k, issued) >= 2

====
